---- MODULE Spec2Model ----
(***************************************************************************)
(* Model of the marketplace backend: the credential and token service      *)
(* (auth.js), the express routes built on it (server), and the in-memory   *)
(* upload registry (upload).                                               *)
(***************************************************************************)
EXTENDS Integers, Sequences, FiniteSets, TLC

VARIABLES
    now,                \* Date.now(), in milliseconds
    ticks,              \* number of clock advances so far
    admin_users,        \* rows of table admin_users
    issued,             \* history: tokens and expiries returned by adminLogin, with the username
    req,                \* the request being answered
    resp,               \* the answer to it
    motorcycles,        \* table motorcycles: id -> name
    motorcycle_images,  \* table motorcycle_images, in insertion order
    testimonials,       \* table testimonials: id -> text
    inquiries,          \* table inquiries, in insertion order
    uploads,            \* the Map of upload: fileId -> fileInfo
    calls,              \* history: one entry per uploadFile call that returned
    writes,             \* number of requests so far that changed a table or the Map
    inflight            \* image uploads being handled: request -> where its handler is

vars == <<now, ticks, admin_users, issued, req, resp, motorcycles,
          motorcycle_images, testimonials, inquiries, uploads, calls, writes,
          inflight>>

authVars == <<admin_users, issued>>
dbVars == <<motorcycles, motorcycle_images, testimonials, inquiries>>
clockVars == <<now, ticks>>

(***************************************************************************)
(* Bounds of the model.                                                    *)
(***************************************************************************)
MaxTicks == 3       \* clock advances in a behaviour
MaxIssued == 2      \* tokens kept in the login history
MaxWrites == 1      \* requests that change a table or the Map, in a behaviour
MaxRows == 1        \* rows a behaviour can add to a table, beside the sample rows
MaxBatch == 2       \* files in one request
MaxFileIds == 2     \* values the random source of uploadFile can return
MaxUploads == 2     \* uploadFile calls that return, in a behaviour
MaxRequests == 2    \* image-upload requests handled at the same time

(***************************************************************************)
(* Time.  jsonwebtoken counts seconds (Math.floor(Date.now() / 1000)),     *)
(* adminLogin counts milliseconds.                                         *)
(***************************************************************************)
MsPerSec == 1000
ExpiresInSec == 86400                       \* expiresIn: '24h'
LoginExpiryMs == 24 * 60 * 60 * 1000        \* auth.js line 46

ClockSteps == {1, LoginExpiryMs - 1}

ClockSeconds(t) == t \div MsPerSec

(***************************************************************************)
(* Signing keys, tokens, password hashes.                                  *)
(***************************************************************************)
JWT_SECRET == "mwirutijnr-secret-key-2025"
OtherSecret == "another-secret"

\* A token string: absent/empty, not a JWT at all, or a JWT with its claims
\* and the key that signed it.
NoToken == [form |-> "absent", userId |-> 0, type |-> "", iat |-> 0, exp |-> 0, key |-> ""]
Garbage == [form |-> "garbage", userId |-> 0, type |-> "", iat |-> 0, exp |-> 0, key |-> ""]

Jwt(payload, key, t) ==
    [form |-> "jwt", userId |-> payload.userId, type |-> payload.type,
     iat |-> ClockSeconds(t), exp |-> ClockSeconds(t) + ExpiresInSec, key |-> key]

GenerateTokenWrongType(userId, t) ==
    Jwt([userId |-> userId, type |-> "user"], JWT_SECRET, t)

\* generateToken: jwt.sign({userId, type: 'admin'}, JWT_SECRET, {expiresIn: '24h'})
GenerateToken(userId, t) ==
    Jwt([userId |-> userId, type |-> "admin"], JWT_SECRET, t)

Null == [ok |-> FALSE, userId |-> 0, type |-> ""]

\* jwt.verify: throws on a string that is no JWT, on a signature made with
\* another key, and when the clock has reached exp.
JwtVerifies(token, key, t) ==
    /\ token.form = "jwt"
    /\ token.key = key
    /\ ClockSeconds(t) < token.exp

VerifyTokenIgnoreExpiration(token, t) ==
    IF token.form = "jwt" /\ token.key = JWT_SECRET
    THEN [ok |-> TRUE, userId |-> token.userId, type |-> token.type]
    ELSE Null

\* verifyToken: the decoded payload, or null when jwt.verify throws
VerifyToken(token, t) ==
    IF JwtVerifies(token, JWT_SECRET, t)
    THEN [ok |-> TRUE, userId |-> token.userId, type |-> token.type]
    ELSE Null

BcryptHash(password) == <<"$2b$10$", password>>
BcryptCompare(password, hash) == BcryptHash(password) = hash

\* Date.prototype.toISOString: an ISO-8601 string with millisecond precision
ToISOString(t) == [iso |-> t]
\* new Date(iso).getTime(): the instant an ISO-8601 string names
GetTime(iso) == iso.iso

(***************************************************************************)
(* Requests and responses.                                                 *)
(***************************************************************************)
\* The authorization header: absent, or "<scheme><sep spaces><cred>..."
NoHeader == [present |-> FALSE, scheme |-> "", sep |-> 0, cred |-> NoToken]
Header(scheme, sep, cred) ==
    [present |-> TRUE, scheme |-> scheme, sep |-> sep, cred |-> cred]
Bearer(token) == Header("Bearer", 1, token)

Req0 ==
    [route |-> "", header |-> NoHeader, username |-> "", password |-> "",
     token |-> NoToken, id |-> 0, text |-> "", name |-> "", phone |-> "",
     files |-> <<>>]

Resp0 ==
    [status |-> 0, error |-> "", success |-> FALSE, token |-> NoToken,
     expiry |-> ToISOString(0), valid |-> FALSE, userId |-> 0, next |-> FALSE,
     registered |-> <<>>, tried |-> <<>>, images |-> <<>>, rows |-> <<>>]

Json(status, fields) == [f \in DOMAIN Resp0 |->
    IF f = "status" THEN status
    ELSE IF f \in DOMAIN fields THEN fields[f] ELSE Resp0[f]]

(***************************************************************************)
(* auth.js                                                                 *)
(***************************************************************************)
\* SELECT * FROM admin_users WHERE username = $1
RowsByUsername(username) == {u \in admin_users : u.username = username}
\* SELECT id FROM admin_users WHERE id = $1
RowsById(id) == {u \in admin_users : u.id = id}

InvalidCredentials ==
    [success |-> FALSE, error |-> "Invalid credentials", token |-> NoToken,
     expiry |-> ToISOString(0)]

AdminLoginNamesMissingUser(username, password) ==
    LET rows == RowsByUsername(username) IN
    IF rows = {} THEN [InvalidCredentials EXCEPT !.error = "User not found"]
    ELSE LET user == CHOOSE u \in rows : TRUE IN
         IF ~BcryptCompare(password, user.password_hash) THEN InvalidCredentials
         ELSE [success |-> TRUE, error |-> "", token |-> GenerateToken(user.id, now),
               expiry |-> ToISOString(now + LoginExpiryMs)]

\* adminLogin(username, password)
AdminLogin(username, password) ==
    LET rows == RowsByUsername(username) IN
    IF rows = {} THEN InvalidCredentials
    ELSE LET user == CHOOSE u \in rows : TRUE IN
         IF ~BcryptCompare(password, user.password_hash) THEN InvalidCredentials
         ELSE [success |-> TRUE, error |-> "", token |-> GenerateToken(user.id, now),
               expiry |-> ToISOString(now + LoginExpiryMs)]

VerifyAdminTokenNoLookup(token) ==
    LET decoded == VerifyToken(token, now) IN
    IF ~decoded.ok \/ decoded.type # "admin" THEN [valid |-> FALSE, userId |-> 0]
    ELSE [valid |-> TRUE, userId |-> decoded.userId]

\* verifyAdminToken(token)
VerifyAdminToken(token) ==
    LET decoded == VerifyToken(token, now) IN
    IF ~decoded.ok \/ decoded.type # "admin" THEN [valid |-> FALSE, userId |-> 0]
    ELSE [valid |-> RowsById(decoded.userId) # {}, userId |-> decoded.userId]

\* authHeader.split(' ')[1]
HeaderToken(h) == IF h.sep = 1 THEN h.cred ELSE NoToken

Unauthorized(message) == [next |-> FALSE, userId |-> 0, status |-> 401, error |-> message]

AuthMiddlewareNamesExpiry(h) ==
    IF ~h.present \/ ~(h.scheme = "Bearer" /\ h.sep >= 1)
    THEN Unauthorized("No token provided")
    ELSE LET decoded == VerifyToken(HeaderToken(h), now) IN
         IF ~decoded.ok \/ decoded.type # "admin"
         THEN IF VerifyTokenIgnoreExpiration(HeaderToken(h), now).ok
              THEN Unauthorized("Token expired")
              ELSE Unauthorized("Invalid token")
         ELSE [next |-> TRUE, userId |-> decoded.userId, status |-> 0, error |-> ""]

\* authMiddleware(req, res, next): next is whether next() was called, userId
\* is req.userId, status and error are the response sent instead.
AuthMiddleware(h) ==
    IF ~h.present \/ ~(h.scheme = "Bearer" /\ h.sep >= 1)
    THEN Unauthorized("No token provided")
    ELSE LET decoded == VerifyToken(HeaderToken(h), now) IN
         IF ~decoded.ok \/ decoded.type # "admin"
         THEN Unauthorized("Invalid token")
         ELSE [next |-> TRUE, userId |-> decoded.userId, status |-> 0, error |-> ""]

(***************************************************************************)
(* database: the rows present when the server starts.                      *)
(***************************************************************************)
DefaultAdminPassword == "mwirutijnr2025"
DefaultAdmin ==
    [id |-> 1, username |-> "admin", password_hash |-> BcryptHash(DefaultAdminPassword)]

\* sampleTestimonials: the text column of each row
SampleTestimonials ==
    <<"Bought my Boxer bike from MWIRUTI JNR. Excellent condition and great service!",
      "Sold my motorcycle here. Got the best price in town. Highly recommended!",
      "Trustworthy dealers. The Suzuki bike I bought is running perfectly after 6 months.">>
\* sampleMotorcycles: the name column of each row
SampleMotorcycles == <<"SkyGo 150CC", "Boxer BM150", "Suzuki 125">>
SampleImageUrl ==
    [href |-> "https://images.unsplash.com/photo-1558981806-ec527fa84c39?ixlib=rb-1.2.1&auto=format&fit=crop&w=500&h=300&q=80"]
\* the motorcycle_images row inserted with each sample motorcycle
SampleImage(id) ==
    [motorcycle_id |-> id, image_url |-> SampleImageUrl,
     image_name |-> "sample-motorcycle.jpg", size |-> 102400, is_primary |-> TRUE]

\* identifiers of the sample rows and of the rows a run can add
RowIds == 1..(Len(SampleMotorcycles) + MaxRows)

\* the handlers of POST /api/motorcycles/:id/images that can run at once
Requests == 1..MaxRequests
\* a handler that has not been entered: pc is where it stands, k the file of
\* the loop it is at, result the uploadResult of that file, count what the
\* COUNT query answered, images the uploadedImages array, status the answer
Inflight0 ==
    [pc |-> "idle", id |-> 0, files |-> <<>>, k |-> 0, userId |-> 0,
     result |-> [id |-> 0, url |-> [mimetype |-> <<"", "">>, data |-> [base64 |-> <<>>]],
                 name |-> "", size |-> 0],
     count |-> 0, images |-> <<>>, status |-> 0]

Init ==
    /\ now = 0
    /\ ticks = 0
    /\ admin_users = {DefaultAdmin}
    /\ issued = {}
    /\ req = Req0
    /\ resp = Resp0
    /\ motorcycles = [i \in DOMAIN SampleMotorcycles |-> SampleMotorcycles[i]]
    /\ motorcycle_images = [i \in DOMAIN SampleMotorcycles |-> SampleImage(i)]
    /\ testimonials = [i \in DOMAIN SampleTestimonials |-> SampleTestimonials[i]]
    /\ inquiries = <<>>
    /\ uploads = [i \in {} |-> 0]
    /\ calls = <<>>
    /\ writes = 0
    /\ inflight = [r \in Requests |-> Inflight0]

(***************************************************************************)
(* Inputs.                                                                 *)
(***************************************************************************)
Usernames == {"", "admin", "ghost"}
Passwords == {"", DefaultAdminPassword, "wrong"}

IssuedTokens == {i.token : i \in issued}

\* Tokens nobody was issued: signed with another key, or carrying another
\* type.
ForgedTokens ==
    {Jwt([userId |-> 1, type |-> "admin"], OtherSecret, now),
     Jwt([userId |-> 1, type |-> "user"], JWT_SECRET, now)}

TokenInputs == {NoToken, Garbage} \cup IssuedTokens \cup ForgedTokens

HeaderInputs ==
    {NoHeader, Header("", 0, NoToken), Header("Bearer", 0, NoToken)}
    \cup {Bearer(t) : t \in TokenInputs}
    \cup {Header("Basic", 1, t) : t \in IssuedTokens}
    \cup {Header("Bearer", 2, t) : t \in IssuedTokens}

(***************************************************************************)
(* The clock and the principal store's environment.                        *)
(***************************************************************************)
\* no request is being answered
Idle == req = Req0

\* the response has been sent
Finish ==
    /\ ~Idle
    /\ req' = Req0
    /\ resp' = Resp0
    /\ UNCHANGED <<clockVars, authVars, dbVars, uploads, calls, writes, inflight>>

Tick ==
    /\ Idle
    /\ ticks < MaxTicks
    /\ \E d \in ClockSteps : now' = now + d
    /\ ticks' = ticks + 1
    /\ UNCHANGED <<authVars, req, resp, dbVars, uploads, calls, writes, inflight>>

\* DELETE FROM admin_users WHERE id = $1, run by an operator of the database
DeleteAdminUser ==
    /\ Idle
    /\ \E u \in admin_users : admin_users' = admin_users \ {u}
    /\ UNCHANGED <<clockVars, issued, req, resp, dbVars, uploads, calls, writes, inflight>>

(***************************************************************************)
(* Admin endpoints.                                                        *)
(***************************************************************************)
\* POST /api/admin/login
PostAdminLogin ==
    /\ Idle
    /\ \E username \in Usernames, password \in Passwords :
        /\ req' = [Req0 EXCEPT !.route = "POST /api/admin/login",
                               !.username = username, !.password = password]
        /\ IF username = "" \/ password = ""
           THEN /\ resp' = Json(400, [error |-> "Username and password are required"])
                /\ UNCHANGED issued
           ELSE LET result == AdminLogin(username, password) IN
                IF result.success
                THEN /\ Cardinality(issued \cup {[token |-> result.token, username |-> username,
                                                   expiry |-> result.expiry]})
                            <= MaxIssued
                     /\ resp' = Json(200, result)
                     /\ issued' = issued \cup {[token |-> result.token, username |-> username,
                                                   expiry |-> result.expiry]}
                ELSE /\ resp' = Json(401, [error |-> result.error])
                     /\ UNCHANGED issued
        /\ UNCHANGED <<clockVars, admin_users, dbVars, uploads, calls, writes, inflight>>

\* POST /api/admin/verify
PostAdminVerify ==
    /\ Idle
    /\ \E token \in TokenInputs :
        /\ req' = [Req0 EXCEPT !.route = "POST /api/admin/verify", !.token = token]
        /\ resp' = IF token.form = "absent"
                   THEN Json(400, [error |-> "Token is required"])
                   ELSE Json(200, VerifyAdminToken(token))
        /\ UNCHANGED <<clockVars, authVars, dbVars, uploads, calls, writes, inflight>>

(***************************************************************************)
(* upload: the in-memory registry.                                         *)
(***************************************************************************)
\* crypto.randomBytes(16).toString('hex'): any of the values of the source
FileIds == 1..MaxFileIds

\* Buffer.prototype.toString('base64')
Base64(bytes) == [base64 |-> bytes]
\* `data:${file.mimetype};base64,${base64Data}`
DataUrl(mimetype, bytes) == [mimetype |-> mimetype, data |-> Base64(bytes)]

NoResult == [id |-> 0, url |-> DataUrl(<<"", "">>, <<>>), name |-> "", size |-> 0]

Put(map, key, value) ==
    [k \in DOMAIN map \cup {key} |-> IF k = key THEN value ELSE map[k]]

\* an identifier computed from the payload's bytes
ContentId(file) == (Len(file.data.bytes) % MaxFileIds) + 1

UploadFileByContent(file, fileId, map) ==
    IF ~file.data.buffer
    THEN [ok |-> FALSE, error |-> "File upload failed", uploads |-> map, result |-> NoResult]
    ELSE LET id == ContentId(file)
             dataUrl == DataUrl(file.mimetype, file.data.bytes)
             fileInfo == [id |-> id, name |-> file.name, size |-> file.size,
                          mimetype |-> file.mimetype, dataUrl |-> dataUrl,
                          createdAt |-> ToISOString(now)]
         IN [ok |-> TRUE, error |-> "", uploads |-> Put(map, id, fileInfo),
             result |-> [id |-> id, url |-> dataUrl, name |-> file.name,
                         size |-> file.size]]

\* uploadFile(file), with fileId the value the random source returns and map
\* the registry before the call; ok is FALSE when the function throws.
UploadFile(file, fileId, map) ==
    IF ~file.data.buffer
    THEN [ok |-> FALSE, error |-> "File upload failed", uploads |-> map, result |-> NoResult]
    ELSE LET dataUrl == DataUrl(file.mimetype, file.data.bytes)
             fileInfo == [id |-> fileId, name |-> file.name, size |-> file.size,
                          mimetype |-> file.mimetype, dataUrl |-> dataUrl,
                          createdAt |-> ToISOString(now)]
         IN [ok |-> TRUE, error |-> "", uploads |-> Put(map, fileId, fileInfo),
             result |-> [id |-> fileId, url |-> dataUrl, name |-> file.name,
                         size |-> file.size]]

Undefined ==
    [id |-> 0, name |-> "", size |-> 0, mimetype |-> <<"", "">>,
     dataUrl |-> DataUrl(<<"", "">>, <<>>), createdAt |-> ToISOString(0)]

GetFileFirstRecord(fileId) ==
    IF DOMAIN uploads = {} THEN Undefined
    ELSE uploads[CHOOSE k \in DOMAIN uploads : \A j \in DOMAIN uploads : k <= j]

\* getFile(fileId): uploads.get(fileId)
GetFile(fileId) ==
    IF fileId \in DOMAIN uploads THEN uploads[fileId] ELSE Undefined

\* Files a request can carry.
MaxFileSize == 5 * 1024 * 1024
Buffer(bytes) == [buffer |-> TRUE, bytes |-> bytes]
Photo ==
    [name |-> "a.jpg", size |-> 3, mimetype |-> <<"image", "jpeg">>,
     data |-> Buffer(<<97, 98, 99>>)]
Drawing ==
    [name |-> "b.png", size |-> 2, mimetype |-> <<"image", "png">>,
     data |-> Buffer(<<137, 80>>)]
Document ==
    [name |-> "x.pdf", size |-> 3, mimetype |-> <<"application", "pdf">>,
     data |-> Buffer(<<37, 80, 68>>)]
Oversized ==
    [name |-> "big.png", size |-> MaxFileSize + 1, mimetype |-> <<"image", "png">>,
     data |-> Buffer(<<137>>)]
\* a file whose data is no Buffer: data.toString throws
Unreadable ==
    [name |-> "bad.png", size |-> 1, mimetype |-> <<"image", "png">>,
     data |-> [buffer |-> FALSE, bytes |-> <<>>]]

\* a file that is no image and whose data is no Buffer
Scan ==
    [name |-> "scan.pdf", size |-> 1, mimetype |-> <<"application", "pdf">>,
     data |-> [buffer |-> FALSE, bytes |-> <<>>]]

FileInputs == {Photo, Drawing, Document, Oversized, Unreadable, Scan}

\* req.files of a request: no file, one file, or several
BatchInputs ==
    {b \in {<<>>, <<Photo>>, <<Document>>, <<Oversized>>, <<Unreadable>>,
            <<Photo, Photo>>, <<Photo, Drawing>>, <<Document, Photo>>,
            <<Scan, Photo>>,
            <<Unreadable, Photo>>, <<Photo, Unreadable>>,
            <<Photo, Unreadable, Drawing>>, <<Photo, Photo, Drawing>>,
            <<Photo, Photo, Drawing, Unreadable>>} : Len(b) <= MaxBatch}

IsImageOrDocument(file) == file.mimetype[1] \in {"image", "application"}

\* file.mimetype.startsWith('image/')
IsImage(file) == file.mimetype[1] = "image"
WithinLimit(file) == file.size <= MaxFileSize

\* uploadFile called through the module's interface
Register ==
    /\ Idle
    /\ Len(calls) < MaxUploads
    /\ \E file \in FileInputs, fileId \in FileIds :
        LET up == UploadFile(file, fileId, uploads) IN
        /\ req' = [Req0 EXCEPT !.route = "uploadFile", !.files = <<file>>]
        /\ uploads' = up.uploads
        /\ calls' = IF up.ok THEN Append(calls, [rnd |-> fileId, id |-> up.result.id,
                                                 file |-> file,
                                                 info |-> up.uploads[up.result.id]])
                    ELSE calls
        /\ resp' = IF up.ok THEN Json(0, [rows |-> up.result, registered |-> <<1>>,
                                          tried |-> <<1>>])
                   ELSE Json(0, [error |-> up.error, tried |-> <<1>>])
    /\ UNCHANGED <<clockVars, authVars, dbVars, writes, inflight>>

\* getFile called through the module's interface
Lookup ==
    /\ Idle
    /\ \E fileId \in FileIds \cup {0} :
        /\ req' = [Req0 EXCEPT !.route = "getFile", !.id = fileId]
        /\ resp' = Json(0, [rows |-> GetFile(fileId)])
    /\ UNCHANGED <<clockVars, authVars, dbVars, uploads, calls, writes, inflight>>

(***************************************************************************)
(* server: middleware chain and routes.                                    *)
(***************************************************************************)
RoutesBehindAuthExceptTestimonialDelete(route) ==
    route \in {"POST /api/motorcycles", "PUT /api/motorcycles/:id",
               "DELETE /api/motorcycles/:id", "POST /api/motorcycles/:id/images",
               "POST /api/testimonials", "PUT /api/testimonials/:id",
               "GET /api/backup"}

\* the routes registered with authMiddleware before their handler
UsesAuthMiddleware(route) ==
    route \in {"POST /api/motorcycles", "PUT /api/motorcycles/:id",
               "DELETE /api/motorcycles/:id", "POST /api/motorcycles/:id/images",
               "POST /api/testimonials", "PUT /api/testimonials/:id",
               "DELETE /api/testimonials/:id", "GET /api/backup"}

Pass == [next |-> TRUE, userId |-> 0, status |-> 0, error |-> ""]

ServerError == Json(500, [error |-> "Server error"])

Texts == {"", "Boxer"}

\* gen_random_uuid(): an identifier no row of the table has
NewId(table) == CHOOSE id \in RowIds \ DOMAIN table : \A j \in RowIds \ DOMAIN table : id <= j

Without(table, id) == [k \in DOMAIN table \ {id} |-> table[k]]
\* rows of motorcycle_images that reference motorcycle id
RECURSIVE ImagesOf(_, _)
ImagesOf(rows, id) ==
    IF rows = <<>> THEN <<>>
    ELSE IF Head(rows).motorcycle_id = id
         THEN <<Head(rows)>> \o ImagesOf(Tail(rows), id)
         ELSE ImagesOf(Tail(rows), id)
RECURSIVE ImagesNotOf(_, _)
ImagesNotOf(rows, id) ==
    IF rows = <<>> THEN <<>>
    ELSE IF Head(rows).motorcycle_id # id
         THEN <<Head(rows)>> \o ImagesNotOf(Tail(rows), id)
         ELSE ImagesNotOf(Tail(rows), id)

\* GET /api/motorcycles, /api/motorcycles/:id, /api/testimonials, /api/health
ReadHandler(rq, userId) ==
    /\ resp' = Json(200, [rows |-> <<DOMAIN motorcycles, DOMAIN testimonials>>])
    /\ UNCHANGED <<dbVars, uploads, calls>>

\* GET /api/backup
BackupHandler(rq, userId) ==
    /\ resp' = Json(200, [rows |-> <<motorcycles, testimonials, inquiries>>,
                          next |-> TRUE, userId |-> userId])
    /\ UNCHANGED <<dbVars, uploads, calls>>

\* POST /api/motorcycles
CreateMotorcycleHandler(rq, userId) ==
    /\ RowIds \ DOMAIN motorcycles # {}
    /\ motorcycles' = Put(motorcycles, NewId(motorcycles),
                          IF rq.text = "" THEN "New Motorcycle" ELSE rq.text)
    /\ resp' = Json(201, [next |-> TRUE, userId |-> userId])
    /\ UNCHANGED <<motorcycle_images, testimonials, inquiries, uploads, calls>>

\* PUT /api/motorcycles/:id
UpdateMotorcycleHandler(rq, userId) ==
    /\ IF rq.id \in DOMAIN motorcycles
       THEN /\ motorcycles' = [motorcycles EXCEPT ![rq.id] =
                                  IF rq.text = "" THEN @ ELSE rq.text]
            /\ resp' = Json(200, [next |-> TRUE, userId |-> userId])
       ELSE /\ resp' = Json(404, [error |-> "Motorcycle not found", next |-> TRUE,
                                  userId |-> userId])
            /\ UNCHANGED motorcycles
    /\ UNCHANGED <<motorcycle_images, testimonials, inquiries, uploads, calls>>

\* DELETE /api/motorcycles/:id (motorcycle_images rows go with ON DELETE CASCADE)
DeleteMotorcycleHandler(rq, userId) ==
    /\ IF rq.id \in DOMAIN motorcycles
       THEN /\ motorcycles' = Without(motorcycles, rq.id)
            /\ motorcycle_images' = ImagesNotOf(motorcycle_images, rq.id)
            /\ resp' = Json(200, [success |-> TRUE, next |-> TRUE, userId |-> userId])
       ELSE /\ resp' = Json(404, [error |-> "Motorcycle not found", next |-> TRUE,
                                  userId |-> userId])
            /\ UNCHANGED <<motorcycles, motorcycle_images>>
    /\ UNCHANGED <<testimonials, inquiries, uploads, calls>>

\* POST /api/testimonials
CreateTestimonialHandler(rq, userId) ==
    /\ RowIds \ DOMAIN testimonials # {}
    /\ testimonials' = Put(testimonials, NewId(testimonials), rq.text)
    /\ resp' = Json(201, [next |-> TRUE, userId |-> userId])
    /\ UNCHANGED <<motorcycles, motorcycle_images, inquiries, uploads, calls>>

\* PUT /api/testimonials/:id
UpdateTestimonialHandler(rq, userId) ==
    /\ IF rq.id \in DOMAIN testimonials
       THEN /\ testimonials' = [testimonials EXCEPT ![rq.id] =
                                   IF rq.text = "" THEN @ ELSE rq.text]
            /\ resp' = Json(200, [next |-> TRUE, userId |-> userId])
       ELSE /\ resp' = Json(404, [error |-> "Testimonial not found", next |-> TRUE,
                                  userId |-> userId])
            /\ UNCHANGED testimonials
    /\ UNCHANGED <<motorcycles, motorcycle_images, inquiries, uploads, calls>>

\* DELETE /api/testimonials/:id
DeleteTestimonialHandler(rq, userId) ==
    /\ IF rq.id \in DOMAIN testimonials
       THEN /\ testimonials' = Without(testimonials, rq.id)
            /\ resp' = Json(200, [success |-> TRUE, next |-> TRUE, userId |-> userId])
       ELSE /\ resp' = Json(404, [error |-> "Testimonial not found", next |-> TRUE,
                                  userId |-> userId])
            /\ UNCHANGED testimonials
    /\ UNCHANGED <<motorcycles, motorcycle_images, inquiries, uploads, calls>>

\* What a handler's loop over the files of a request has done so far: tried
\* lists the positions of the files uploadFile was called with, registered
\* those it returned for.
Loop0 ==
    [uploads |-> uploads, calls |-> calls, rows |-> motorcycle_images,
     images |-> <<>>, tried |-> <<>>, registered |-> <<>>, thrown |-> FALSE]

Tried(st, k) == [st EXCEPT !.tried = Append(@, k)]

Registered(st, up, k, file, fileId) ==
    [st EXCEPT !.uploads = up.uploads,
               !.calls = Append(@, [rnd |-> fileId, id |-> up.result.id, file |-> file,
                                    info |-> up.uploads[up.result.id]]),
               !.registered = Append(@, k)]

\* the for loop of POST /api/motorcycles/:id/images, from file k on; rnd[k]
\* is what the random source returns for file k.  An exception leaves the
\* loop for the handler's catch.
RECURSIVE ImagesLoop(_, _, _, _, _)
ImagesLoop(id, files, rnd, k, st) ==
    IF k > Len(files) \/ st.thrown THEN st
    ELSE LET file == files[k] IN
         IF ~IsImage(file) THEN ImagesLoop(id, files, rnd, k + 1, st)
         ELSE IF ~WithinLimit(file) THEN ImagesLoop(id, files, rnd, k + 1, st)
         ELSE LET up == UploadFile(file, rnd[k], st.uploads) IN
              IF ~up.ok THEN [Tried(st, k) EXCEPT !.thrown = TRUE]
              ELSE LET st1 == Registered(Tried(st, k), up, k, file, rnd[k])
                       \* SELECT COUNT(*) FROM motorcycle_images WHERE motorcycle_id = $1
                       isPrimary == Len(ImagesOf(st.rows, id)) = 0
                       row == [motorcycle_id |-> id, image_url |-> up.result.url,
                               image_name |-> up.result.name, size |-> up.result.size,
                               is_primary |-> isPrimary]
                   IN \* motorcycle_id REFERENCES motorcycles(id): the INSERT fails
                      IF id \notin DOMAIN motorcycles THEN [st1 EXCEPT !.thrown = TRUE]
                      ELSE ImagesLoop(id, files, rnd, k + 1,
                               [st1 EXCEPT !.rows = Append(@, row),
                                           !.images = Append(@, row)])

\* POST /api/motorcycles/:id/images
UploadImagesHandler(rq, userId) ==
    /\ IF rq.files = <<>>
       THEN /\ resp' = Json(400, [error |-> "No files uploaded", next |-> TRUE,
                                  userId |-> userId])
            /\ UNCHANGED <<motorcycle_images, uploads, calls>>
       ELSE \E rnd \in [DOMAIN rq.files -> FileIds] :
            LET st == ImagesLoop(rq.id, rq.files, rnd, 1, Loop0) IN
            /\ Len(st.calls) <= MaxUploads
            /\ uploads' = st.uploads
            /\ calls' = st.calls
            /\ motorcycle_images' = st.rows
            /\ resp' = IF st.thrown
                       THEN [ServerError EXCEPT !.next = TRUE, !.userId = userId,
                                                !.registered = st.registered,
                                                !.tried = st.tried]
                       ELSE Json(200, [images |-> st.images, next |-> TRUE,
                                       userId |-> userId,
                                       registered |-> st.registered,
                                       tried |-> st.tried])
    /\ UNCHANGED <<motorcycles, testimonials, inquiries>>

\* the for loop of POST /api/inquiries
RECURSIVE PhotosLoop(_, _, _, _)
PhotosLoop(files, rnd, k, st) ==
    IF k > Len(files) \/ st.thrown THEN st
    ELSE LET file == files[k] IN
         IF IsImage(file) /\ WithinLimit(file)
         THEN LET up == UploadFile(file, rnd[k], st.uploads) IN
              IF ~up.ok THEN [Tried(st, k) EXCEPT !.thrown = TRUE]
              ELSE PhotosLoop(files, rnd, k + 1,
                              Registered(Tried(st, k), up, k, file, rnd[k]))
         ELSE PhotosLoop(files, rnd, k + 1, st)

\* POST /api/inquiries
SubmitInquiryHandler(rq, userId) ==
    IF rq.name = "" \/ rq.phone = ""
    THEN /\ resp' = Json(400, [error |-> "Name and phone are required"])
         /\ UNCHANGED <<dbVars, uploads, calls>>
    ELSE \E rnd \in [DOMAIN rq.files -> FileIds] :
         LET st == PhotosLoop(rq.files, rnd, 1, Loop0) IN
         /\ Len(st.calls) <= MaxUploads
         /\ inquiries' = Append(inquiries, [name |-> rq.name, phone |-> rq.phone])
         /\ uploads' = st.uploads
         /\ calls' = st.calls
         /\ resp' = IF st.thrown
                    THEN [ServerError EXCEPT !.registered = st.registered,
                                             !.tried = st.tried]
                    ELSE Json(201, [success |-> TRUE, registered |-> st.registered,
                                    tried |-> st.tried])
         /\ UNCHANGED <<motorcycles, motorcycle_images, testimonials>>

\* the handler registered for the route
Handler(route, rq, userId) ==
    CASE route = "GET /api/motorcycles" -> ReadHandler(rq, userId)
      [] route = "GET /api/backup" -> BackupHandler(rq, userId)
      [] route = "POST /api/motorcycles" -> CreateMotorcycleHandler(rq, userId)
      [] route = "PUT /api/motorcycles/:id" -> UpdateMotorcycleHandler(rq, userId)
      [] route = "DELETE /api/motorcycles/:id" -> DeleteMotorcycleHandler(rq, userId)
      [] route = "POST /api/motorcycles/:id/images" -> UploadImagesHandler(rq, userId)
      [] route = "POST /api/testimonials" -> CreateTestimonialHandler(rq, userId)
      [] route = "PUT /api/testimonials/:id" -> UpdateTestimonialHandler(rq, userId)
      [] route = "DELETE /api/testimonials/:id" -> DeleteTestimonialHandler(rq, userId)
      [] route = "POST /api/inquiries" -> SubmitInquiryHandler(rq, userId)

\* app.use(fileUpload({limits: {fileSize}, abortOnLimit: true})), then the
\* route's own chain: authMiddleware where registered, then the handler.
Express(route, rq) ==
    /\ Idle
    /\ req' = [rq EXCEPT !.route = route]
    /\ IF \E i \in DOMAIN rq.files : rq.files[i].size > MaxFileSize
       THEN /\ resp' = Json(413, [error |-> "File size limit has been reached"])
            /\ UNCHANGED <<dbVars, uploads, calls>>
       ELSE LET gate == IF UsesAuthMiddleware(route) THEN AuthMiddleware(rq.header)
                        ELSE Pass IN
            IF gate.next
            THEN Handler(route, rq, gate.userId)
            ELSE /\ resp' = Json(gate.status, [error |-> gate.error])
                 /\ UNCHANGED <<dbVars, uploads, calls>>
    /\ writes' = IF <<dbVars, uploads>>' # <<dbVars, uploads>> THEN writes + 1
                 ELSE writes
    /\ writes' <= MaxWrites
    /\ UNCHANGED <<clockVars, authVars, inflight>>

(***************************************************************************)
(* One action per route.                                                   *)
(***************************************************************************)
RouteHeaders ==
    {NoHeader, Bearer(Garbage)} \cup {Bearer(t) : t \in IssuedTokens}

GetPublic ==
    Express("GET /api/motorcycles", Req0)

GetBackup ==
    \E h \in HeaderInputs :
        Express("GET /api/backup", [Req0 EXCEPT !.header = h])

PostMotorcycle ==
    \E h \in RouteHeaders, text \in Texts :
        Express("POST /api/motorcycles", [Req0 EXCEPT !.header = h, !.text = text])

PutMotorcycle ==
    \E h \in RouteHeaders, id \in RowIds, text \in Texts :
        Express("PUT /api/motorcycles/:id",
                [Req0 EXCEPT !.header = h, !.id = id, !.text = text])

DeleteMotorcycle ==
    \E h \in RouteHeaders, id \in RowIds :
        Express("DELETE /api/motorcycles/:id", [Req0 EXCEPT !.header = h, !.id = id])

PostMotorcycleImagesOf(batches) ==
    \E h \in RouteHeaders, id \in RowIds, files \in batches :
        Express("POST /api/motorcycles/:id/images",
                [Req0 EXCEPT !.header = h, !.id = id, !.files = files])

PostTestimonial ==
    \E h \in RouteHeaders, text \in Texts :
        Express("POST /api/testimonials", [Req0 EXCEPT !.header = h, !.text = text])

PutTestimonial ==
    \E h \in RouteHeaders, id \in RowIds, text \in Texts :
        Express("PUT /api/testimonials/:id",
                [Req0 EXCEPT !.header = h, !.id = id, !.text = text])

DeleteTestimonial ==
    \E h \in RouteHeaders, id \in RowIds :
        Express("DELETE /api/testimonials/:id", [Req0 EXCEPT !.header = h, !.id = id])

PostInquiryOf(batches) ==
    \E name \in {"", "Ann"}, phone \in {"", "0700"}, files \in batches :
        Express("POST /api/inquiries",
                [Req0 EXCEPT !.name = name, !.phone = phone, !.files = files])

\* requests with at most one file, and requests with several
SingleInputs == {b \in BatchInputs : Len(b) <= 1}
PostMotorcycleImage == PostMotorcycleImagesOf(SingleInputs)
PostInquiry == PostInquiryOf(SingleInputs)
PostMotorcycleImages == PostMotorcycleImagesOf(BatchInputs)
PostInquiryPhotos == PostInquiryOf(BatchInputs)

(***************************************************************************)
(* POST /api/motorcycles/:id/images, one step per await: handlers of        *)
(* several requests interleave at their queries.                           *)
(***************************************************************************)
ConcurrentInputs ==
    {b \in {<<>>, <<Photo>>, <<Oversized>>, <<Document, Photo>>,
            <<Photo, Drawing>>, <<Unreadable>>} : Len(b) <= MaxBatch}

\* res.status(status).json(...): the handler is left
Answered(h, status) == [h EXCEPT !.pc = "done", !.status = status]

\* the first file from position k on that the loop does not skip
RECURSIVE NextAccepted(_, _)
NextAccepted(files, k) ==
    IF k > Len(files) THEN k
    ELSE IF IsImage(files[k]) /\ WithinLimit(files[k]) THEN k
    ELSE NextAccepted(files, k + 1)

\* the handler runs from file k of its loop to its next await, the COUNT
\* query, or to its answer; fileId is what the random source returns
RunToAwait(h, k, fileId) ==
    LET j == NextAccepted(h.files, k) IN
    IF j > Len(h.files)
    THEN [handler |-> Answered([h EXCEPT !.k = j], 200), uploads |-> uploads,
          calls |-> calls]
    ELSE LET up == UploadFile(h.files[j], fileId, uploads) IN
         IF ~up.ok
         THEN [handler |-> Answered([h EXCEPT !.k = j], 500), uploads |-> uploads,
               calls |-> calls]
         ELSE [handler |-> [h EXCEPT !.pc = "count", !.k = j, !.result = up.result],
               uploads |-> up.uploads,
               calls |-> Append(calls, [rnd |-> fileId, id |-> up.result.id,
                                        file |-> h.files[j],
                                        info |-> up.uploads[up.result.id]])]

\* the :id of a request: a motorcycle's, or one no row has
NoRow == 0

\* a request arrives: the middleware chain, which answers without entering
\* the handler or enters it, then the handler up to its first await; requests
\* are numbered in their order of arrival
BeginUpload(r) ==
    /\ inflight[r].pc = "idle"
    /\ \A q \in Requests : q < r => inflight[q].pc # "idle"
    /\ \E h \in RouteHeaders, id \in DOMAIN motorcycles \cup {NoRow},
          files \in ConcurrentInputs, fileId \in FileIds :
        LET gate == AuthMiddleware(h)
            start == [Inflight0 EXCEPT !.id = id, !.files = files,
                                       !.userId = gate.userId]
            run == RunToAwait(start, 1, fileId)
        IN IF \E i \in DOMAIN files : files[i].size > MaxFileSize
           THEN /\ inflight' = [inflight EXCEPT ![r] = Answered(Inflight0, 413)]
                /\ UNCHANGED <<uploads, calls>>
           ELSE IF ~gate.next
           THEN /\ inflight' = [inflight EXCEPT ![r] = Answered(Inflight0, gate.status)]
                /\ UNCHANGED <<uploads, calls>>
           ELSE IF files = <<>>
           THEN /\ inflight' = [inflight EXCEPT ![r] = Answered(start, 400)]
                /\ UNCHANGED <<uploads, calls>>
           ELSE /\ Len(run.calls) <= MaxUploads
                /\ inflight' = [inflight EXCEPT ![r] = run.handler]
                /\ uploads' = run.uploads
                /\ calls' = run.calls
    /\ UNCHANGED <<clockVars, authVars, req, resp, dbVars, writes>>

\* SELECT COUNT(*) FROM motorcycle_images WHERE motorcycle_id = $1 is answered;
\* the handler computes isPrimary from it and sends the INSERT
CountImages(r) ==
    /\ inflight[r].pc = "count"
    /\ inflight' = [inflight EXCEPT ![r] =
                       [@ EXCEPT !.pc = "insert",
                                 !.count = Len(ImagesOf(motorcycle_images,
                                                        inflight[r].id))]]
    /\ UNCHANGED <<clockVars, authVars, req, resp, dbVars, uploads, calls, writes>>

\* the INSERT INTO motorcycle_images is answered; the handler pushes the row
\* and goes on with its loop to the next await or to its answer
InsertImage(r) ==
    /\ inflight[r].pc = "insert"
    /\ \E fileId \in FileIds :
        LET h == inflight[r]
            isPrimary == h.count = 0
            row == [motorcycle_id |-> h.id, image_url |-> h.result.url,
                    image_name |-> h.result.name, size |-> h.result.size,
                    is_primary |-> isPrimary]
            run == RunToAwait([h EXCEPT !.images = Append(@, row)], h.k + 1, fileId)
        IN \* motorcycle_id REFERENCES motorcycles(id): the INSERT fails
           IF h.id \notin DOMAIN motorcycles
           THEN /\ inflight' = [inflight EXCEPT ![r] = Answered(h, 500)]
                /\ UNCHANGED <<motorcycle_images, uploads, calls>>
           ELSE /\ Len(run.calls) <= MaxUploads
                /\ motorcycle_images' = Append(motorcycle_images, row)
                /\ inflight' = [inflight EXCEPT ![r] = run.handler]
                /\ uploads' = run.uploads
                /\ calls' = run.calls
    /\ UNCHANGED <<clockVars, authVars, req, resp, motorcycles, testimonials,
                   inquiries, writes>>

BeginUploads == \E r \in Requests : BeginUpload(r)
CountsImages == \E r \in Requests : CountImages(r)
InsertsImage == \E r \in Requests : InsertImage(r)

(***************************************************************************)
(* Specifications.                                                         *)
(***************************************************************************)
\* the credential and token service and the gate, with the clock running
Next ==
    \/ Tick
    \/ DeleteAdminUser
    \/ PostAdminLogin
    \/ PostAdminVerify
    \/ GetBackup
    \/ Finish

Spec == Init /\ [][Next]_vars

\* every route of the server, at one instant
NextRoutes ==
    \/ PostAdminLogin
    \/ GetPublic
    \/ GetBackup
    \/ PostMotorcycle
    \/ PutMotorcycle
    \/ DeleteMotorcycle
    \/ PostMotorcycleImage
    \/ PostTestimonial
    \/ PutTestimonial
    \/ DeleteTestimonial
    \/ PostInquiry
    \/ Finish

SpecRoutes == Init /\ [][NextRoutes]_vars

\* the routes that take files, with several files in a request
NextBatch ==
    \/ PostAdminLogin
    \/ PostMotorcycle
    \/ PostMotorcycleImages
    \/ PostInquiryPhotos
    \/ Finish

SpecBatch == Init /\ [][NextBatch]_vars

\* the upload registry and its callers
NextRegistry ==
    \/ Register
    \/ Lookup
    \/ PostInquiryPhotos
    \/ Finish

SpecRegistry == Init /\ [][NextRegistry]_vars

\* image uploads of several requests, interleaved at their queries
NextConcurrent ==
    \/ PostAdminLogin
    \/ PostMotorcycle
    \/ BeginUploads
    \/ CountsImages
    \/ InsertsImage
    \/ Finish

SpecConcurrent == Init /\ [][NextConcurrent]_vars

(***************************************************************************)
(* Properties of the credential and token service and of the gate.         *)
(***************************************************************************)
LoginRoute == "POST /api/admin/login"
VerifyRoute == "POST /api/admin/verify"
GatedRoute == "GET /api/backup"

\* the stored principals that (username, password) matches
Matching(username, password) ==
    {u \in admin_users : u.username = username /\ BcryptCompare(password, u.password_hash)}

\* the instant, in milliseconds, from which jwt.verify calls the token expired
ExpiryInstant(token) == token.exp * MsPerSec

\* the header starts with 'Bearer '
Prefixed(h) == h.present /\ h.scheme = "Bearer" /\ h.sep >= 1

\* C1: a (username, secret) pair that matches a stored principal logs in, and
\* the token it is given validates, before its expiry and while the principal
\* exists, to that principal's identifier.
LoginTokenValidates ==
    /\ (req.route = LoginRoute /\ Matching(req.username, req.password) # {})
          => /\ resp.status = 200
             /\ resp.success
             /\ resp.token.form = "jwt"
    /\ \A i \in issued : \A u \in admin_users :
          (u.username = i.username /\ now < ExpiryInstant(i.token))
             => /\ VerifyAdminToken(i.token) = [valid |-> TRUE, userId |-> u.id]
                /\ (req.route = VerifyRoute /\ req.token = i.token)
                      => (resp.status = 200 /\ resp.valid /\ resp.userId = u.id)

\* a token issued to the default admin validates to its identifier at a
\* later instant
LoginTokenValidatesWitness ==
    /\ req.route = VerifyRoute
    /\ \E i \in issued :
          /\ i.username = DefaultAdmin.username
          /\ req.token = i.token
          /\ now > i.token.iat * MsPerSec
    /\ resp.valid
    /\ resp.userId = DefaultAdmin.id

\* C2: once its principal is deleted, an issued token fails validation, though
\* its signature verifies and it has not expired.
DeletedPrincipalFailsValidate ==
    \A i \in issued :
        RowsById(i.token.userId) = {}
           => /\ ~VerifyAdminToken(i.token).valid
              /\ (req.route = VerifyRoute /\ req.token = i.token)
                    => (resp.status = 200 /\ ~resp.valid)

DeletedPrincipalFailsValidateWitness ==
    /\ req.route = VerifyRoute
    /\ req.token \in IssuedTokens
    /\ JwtVerifies(req.token, JWT_SECRET, now)
    /\ RowsById(req.token.userId) = {}
    /\ ~resp.valid

\* C3: the gate admits a request only when verifyAdminToken accepts its
\* bearer token, the principal's existence included.
GateAdmitsOnlyValidated ==
    (req.route = GatedRoute /\ resp.next)
        => VerifyAdminToken(HeaderToken(req.header)).valid

\* C4: from its expiry instant on, a token is rejected by verifyAdminToken and
\* by the gate, whatever principals are stored; the clock does not go back, so
\* it stays rejected.
ExpiredTokenRejectedNow ==
    \A t \in TokenInputs :
        (t.form = "jwt" /\ now >= ExpiryInstant(t))
           => /\ ~VerifyAdminToken(t).valid
              /\ ~AuthMiddleware(Bearer(t)).next
              /\ (req.route = VerifyRoute /\ req.token = t) => ~resp.valid
              /\ (req.route = GatedRoute /\ req.header = Bearer(t))
                    => (~resp.next /\ resp.status = 401)

ExpiredTokenRejected ==
    /\ []ExpiredTokenRejectedNow
    /\ [][\A i \in issued : now >= ExpiryInstant(i.token)
                               => now' >= ExpiryInstant(i.token)]_vars

ExpiredTokenRejectedWitness ==
    /\ req.route = GatedRoute
    /\ \E i \in issued :
          /\ req.header = Bearer(i.token)
          /\ now >= ExpiryInstant(i.token)
          /\ RowsById(i.token.userId) # {}
    /\ resp.status = 401

\* C6 as stated: every rejection of the gate, whatever its cause, is the same
\* status and body.
GateRejectionUniform ==
    (req.route = GatedRoute /\ ~resp.next)
        => \A h \in HeaderInputs :
              ~AuthMiddleware(h).next
                 => /\ AuthMiddleware(h).status = resp.status
                    /\ AuthMiddleware(h).error = resp.error

\* C6, amended: the gate admits with the token's userId, or rejects with 401
\* and one of two bodies: 'No token provided' when the header is absent or
\* does not start with 'Bearer ', 'Invalid token' for every token failure; on
\* rejection nothing of the handler's response is sent.
GateTwoRejections ==
    req.route = GatedRoute
        => \/ /\ resp.next
              /\ resp.status = 200
              /\ Prefixed(req.header)
              /\ resp.userId = HeaderToken(req.header).userId
           \/ /\ ~resp.next
              /\ resp = Json(401, [error |-> IF Prefixed(req.header)
                                             THEN "Invalid token"
                                             ELSE "No token provided"])

\* an expired token, a token of another key and a token of another type are
\* all answered 'Invalid token'
GateTwoRejectionsWitness ==
    /\ req.route = GatedRoute
    /\ req.header.cred \in IssuedTokens
    /\ Prefixed(req.header)
    /\ now >= ExpiryInstant(req.header.cred)
    /\ resp = Json(401, [error |-> "Invalid token"])
    /\ \A t \in ForgedTokens : AuthMiddleware(Bearer(t)).error = resp.error

\* C7: adminLogin fails alike for an unknown username and for a wrong secret,
\* and gives no token.
LoginFailureUniform ==
    (/\ req.route = LoginRoute
     /\ req.username # ""
     /\ req.password # ""
     /\ Matching(req.username, req.password) = {})
        => /\ resp = Json(401, [error |-> "Invalid credentials"])
           /\ AdminLogin(req.username, req.password) = InvalidCredentials
           /\ resp.token = NoToken

LoginFailureUniformWitness ==
    /\ req.route = LoginRoute
    /\ req.username = "ghost"
    /\ req.password = DefaultAdminPassword
    /\ RowsByUsername("admin") # {}
    /\ resp.status = 401
    /\ AdminLogin("admin", "wrong") = AdminLogin(req.username, req.password)

(***************************************************************************)
(* Properties of the routes.                                               *)
(***************************************************************************)
ImagesRoute == "POST /api/motorcycles/:id/images"
InquiriesRoute == "POST /api/inquiries"

\* the gate admitted the request now answered
Admitted == resp.next /\ AuthMiddleware(req.header).next

\* C5 as stated: no step writes a table or the upload Map unless the gate
\* admitted the request it answers.
EveryWriteAdmitted ==
    [][<<dbVars, uploads>>' # <<dbVars, uploads>> => Admitted']_vars

\* C5, amended: no step writes motorcycles, motorcycle_images or testimonials
\* unless the gate admitted the request; inquiries and the upload Map are
\* written by such a request or by the public POST /api/inquiries.
GatedWritesExceptInquiries ==
    [][/\ <<motorcycles, motorcycle_images, testimonials>>'
              # <<motorcycles, motorcycle_images, testimonials>>
           => Admitted'
       /\ <<inquiries, uploads>>' # <<inquiries, uploads>>
           => (Admitted' \/ req'.route = InquiriesRoute)]_vars

\* an admitted upload wrote an image row and a record, and the rejected
\* request is one the gate can also refuse
GatedWritesExceptInquiriesWitness ==
    /\ req.route = ImagesRoute
    /\ Admitted
    /\ resp.status = 200
    /\ Len(resp.images) > 0
    /\ Len(motorcycle_images) > Len(SampleMotorcycles)
    /\ DOMAIN uploads # {}
    /\ ~AuthMiddleware(NoHeader).next

\* the files of the request that pass the handler's filter
Accepted(k) == IsImage(req.files[k]) /\ WithinLimit(req.files[k])
\* uploadFile throws for file k
FailsRegister(k) == Accepted(k) /\ ~UploadFile(req.files[k], 1, uploads).ok
InRegistered(k) == \E n \in DOMAIN resp.registered : resp.registered[n] = k

\* C8: when uploadFile fails for one file of a request, the other accepted
\* files of the request are registered all the same and the request is not
\* answered with an error.
BatchSurvivesFailure ==
    (/\ req.route \in {ImagesRoute, InquiriesRoute}
     /\ resp.status \notin {400, 401, 413}
     /\ req.route = ImagesRoute => req.id \in DOMAIN motorcycles
     /\ Len(req.files) >= 2
     /\ \E k \in DOMAIN req.files : FailsRegister(k))
        => /\ resp.status # 500
           /\ \A j \in DOMAIN req.files :
                 (Accepted(j) /\ ~FailsRegister(j)) => InRegistered(j)

(***************************************************************************)
(* Properties of the upload registry.                                      *)
(***************************************************************************)
Calls == DOMAIN calls
ReturnedIds == {calls[i].id : i \in Calls}
\* the random source has given no value twice
NoRepeat == \A i, j \in Calls : i # j => calls[i].rnd # calls[j].rnd

\* C9 as stated: the identifiers returned are pairwise distinct and the Map
\* holds one record per call that returned.
IdentifiersDistinct ==
    /\ \A i, j \in Calls : i # j => calls[i].id # calls[j].id
    /\ Cardinality(DOMAIN uploads) = Len(calls)

\* C9, amended: the Map holds one record per identifier returned, under that
\* identifier; and while the random source has not repeated a value the
\* identifiers returned are pairwise distinct, for identical payloads too, and
\* the Map holds one record per call that returned.
IdentifiersDistinctUnlessRepeat ==
    /\ DOMAIN uploads = ReturnedIds
    /\ \A k \in DOMAIN uploads : uploads[k].id = k
    /\ NoRepeat
          => /\ \A i, j \in Calls : i # j => calls[i].id # calls[j].id
             /\ Cardinality(DOMAIN uploads) = Len(calls)

\* the same payload registered twice, under two identifiers
IdentifiersDistinctUnlessRepeatWitness ==
    /\ Len(calls) >= 2
    /\ calls[1].file = calls[2].file
    /\ calls[1].id # calls[2].id
    /\ Cardinality(DOMAIN uploads) = 2

\* the last call that returned identifier k
LastCall(k) == CHOOSE i \in Calls : calls[i].id = k /\ \A j \in Calls : calls[j].id = k => j <= i

\* C10 as stated: getFile of an identifier a call returned gives the record
\* that call created, whatever was registered or looked up since; getFile of
\* any other identifier gives undefined.
LookupReturnsCreated ==
    /\ \A i \in Calls : GetFile(calls[i].id) = calls[i].info
    /\ \A k \in (FileIds \cup {0}) \ ReturnedIds : GetFile(k) = Undefined

\* C10, amended: getFile of an identifier gives the record created by the
\* last call that returned it (the only such call unless the random source
\* repeated a value), and undefined for an identifier no call returned.
LookupReturnsLastCreated ==
    /\ \A k \in ReturnedIds : GetFile(k) = calls[LastCall(k)].info
    /\ \A k \in (FileIds \cup {0}) \ ReturnedIds : GetFile(k) = Undefined
    /\ req.route = "getFile"
          => resp.rows = IF req.id \in ReturnedIds THEN calls[LastCall(req.id)].info
                         ELSE Undefined

\* the first record is looked up, unchanged, after a later call registered
\* another
LookupReturnsLastCreatedWitness ==
    /\ req.route = "getFile"
    /\ Len(calls) >= 2
    /\ calls[1].id # calls[2].id
    /\ req.id = calls[1].id
    /\ resp.rows = calls[1].info
    /\ GetFile(0) = Undefined

\* the instant the login answer gave as expiry is still ahead
BeforeReturnedExpiry(i) == now < GetTime(i.expiry)

\* C11: at every instant, a token adminLogin returned passes jwt.verify
\* (signature and expiry) exactly when the instant is before the expiry
\* adminLogin returned with it.
ReturnedExpiryIsTokenExpiry ==
    \A i \in issued :
        JwtVerifies(i.token, JWT_SECRET, now) <=> BeforeReturnedExpiry(i)

\* the declared media type is of class image and the size is within the ceiling
ImageClass(mimetype) == mimetype[1] = "image"
Admissible(mimetype, size) == ImageClass(mimetype) /\ size <= MaxFileSize

\* C12: the handlers that take files call uploadFile only with files whose
\* declared media type starts with image/ and whose size is within 5 MiB, so
\* every call that returned was for such a file and the upload Map holds
\* records of such files only.
FilteredBeforeRegister ==
    /\ req.route \in {ImagesRoute, InquiriesRoute}
          => \A n \in DOMAIN resp.tried :
                 Admissible(req.files[resp.tried[n]].mimetype,
                            req.files[resp.tried[n]].size)
    /\ \A n \in DOMAIN calls : Admissible(calls[n].file.mimetype, calls[n].file.size)
    /\ \A id \in DOMAIN uploads : Admissible(uploads[id].mimetype, uploads[id].size)

\* a request carried a file that is no image before an image: uploadFile was
\* called with the image only, and the Map holds its record
FilteredBeforeRegisterWitness ==
    /\ req.route \in {ImagesRoute, InquiriesRoute}
    /\ Len(req.files) = 2
    /\ ~ImageClass(req.files[1].mimetype)
    /\ resp.tried = <<2>>
    /\ resp.registered = <<2>>
    /\ resp.status \in {200, 201}
    /\ \E id \in DOMAIN uploads : uploads[id].name = req.files[2].name

\* the motorcycles created since the server started: they start with no image
FreshMotorcycles == DOMAIN motorcycles \ DOMAIN SampleMotorcycles
\* no image upload is between its entry and its answer
Quiescent == \A r \in Requests : inflight[r].pc \in {"idle", "done"}
Primaries(rows) == {n \in DOMAIN rows : rows[n].is_primary}

\* C13: once the image uploads for a motorcycle that started with no images
\* are over, whatever their interleaving, at most one of its image rows has
\* is_primary = true, and its first row is that one.
OnePrimaryFirst ==
    Quiescent =>
        \A id \in FreshMotorcycles :
            LET rows == ImagesOf(motorcycle_images, id) IN
            /\ Cardinality(Primaries(rows)) <= 1
            /\ rows # <<>> => rows[1].is_primary

====
